---- MODULE Spec2Model ----
(***************************************************************************)
(* Siemens MCOM FPGA watchdog driver (drivers/watchdog/mcom_fpga.c).       *)
(*                                                                         *)
(* The model has three kernel execution contexts:                          *)
(*   "bind"  - driver binding: mcom_fpga_probe / mcom_fpga_remove          *)
(*   "wdt"   - the watchdog framework calling the watchdog_ops             *)
(*             (start, stop, ping, set_timeout), one call at a time        *)
(*   "sysfs" - a user reading or writing one of the driver's attributes    *)
(* Every SMBus transaction is one atomic step; a function that issues      *)
(* several transactions takes several steps, and the other contexts may    *)
(* run between them: the driver takes no lock of its own.                  *)
(***************************************************************************)
EXTENDS Integers, Sequences, FiniteSets, TLC

(* ---------------------------------------------------------------- bounds *)
\* Calls (probe, remove, watchdog op, attribute access) started in one run.
MaxCalls == 3

(* ------------------------------------------------------ program constants *)
WD_DIS_MASK == 127
WD_MODE_MASK == 248
WD_START_MODE == 1
WD_NORMAL_MODE == 2
WD_DOWN_MODE == 4

WD_STATUS_CONTROLL == 0
WD_DISABLE_UBS == 18
WD_UPTIME == 32
WD_NORMALTIME == 34
WD_DOWNTIME == 36
WD_UBSTIME == 38
WD_PEREPHERIE_RESET == 40
WD_WINDOWTIME == 44
WD_KICK == 46
WD_TEMP == 80
WD_MVB_STATUS == 144
WD_MVB_CTRL == 146
\* the port-0 configuration register written by probe
PORT0_CONFIG == 6
\* the only I2C address probe accepts
FPGA_ADDR == 60

ENODEV == 0 - 19
ENOMEM == 0 - 12
EINVAL == 0 - 22
ERANGE == 0 - 34

U16 == 65536

Regs == {WD_STATUS_CONTROLL, WD_DISABLE_UBS, WD_UPTIME, WD_NORMALTIME,
         WD_DOWNTIME, WD_UBSTIME, WD_PEREPHERIE_RESET, WD_WINDOWTIME,
         WD_KICK, WD_TEMP, WD_MVB_STATUS, WD_MVB_CTRL, PORT0_CONFIG}

(* ---------------------------------------------------------- input domains *)
\* negative errno values an SMBus transfer may return (-EIO, -ENXIO)
BusErrors == {0 - 5, 0 - 6}
\* power-on contents of the status/control and uptime registers
InitStatus == {0, 32891}
InitUptime == {0, 120}
\* values of the wdt_timeout module parameter (int); 0 is "not given", and
\* 65656 does not fit the 16-bit uptime register
Overrides == {0, 60, 65656}
\* timeouts the watchdog framework passes to set_timeout (unsigned int)
TimeoutArgs == {0, 300, 65656}
\* targets handed to mcom_fpga_set_mode directly (start and stop pass
\* WD_START_MODE and WD_DOWN_MODE)
ModeArgs == {WD_NORMAL_MODE, 3}
\* I2C addresses of the client handed to probe
ClientAddrs == {FPGA_ADDR, 61}
\* text a user writes to an attribute, one character per element
StoreInputs == { <<"0", "x", "7", "0", "\n">>, <<"1", "0", "0", "0", "0">>, <<"z">> }

(* ------------------------------------------------------------- arithmetic *)
RECURSIVE BitAnd(_, _)
BitAnd(a, b) ==
    IF a = 0 \/ b = 0 THEN 0
    ELSE (a % 2) * (b % 2) + 2 * BitAnd(a \div 2, b \div 2)

BitOr(a, b) == a + b - BitAnd(a, b)

\* the truncation of a value passed as a u16 argument
ToU16(v) == v % U16

(* ------------------------------------------------- text <-> u16 conversion *)
HexDigits == <<"0", "1", "2", "3", "4", "5", "6", "7",
               "8", "9", "a", "b", "c", "d", "e", "f">>

\* the value of one hexadecimal digit, -1 for any other character
HexVal(c) ==
    IF \E i \in 1..16 : HexDigits[i] = c
    THEN (CHOOSE i \in 1..16 : HexDigits[i] = c) - 1
    ELSE -1

\* _parse_integer: the leading digits of s, as <<how many, their value>>
RECURSIVE ParseDigits(_, _, _)
ParseDigits(s, n, v) ==
    IF s = <<>> \/ HexVal(Head(s)) < 0 THEN <<n, v, s>>
    ELSE ParseDigits(Tail(s), n + 1, 16 * v + HexVal(Head(s)))

\* kstrtou16_from_user(buf, count, 16, &result): [err, val]
kstrtou16(buf) ==
    LET s1 == IF buf # <<>> /\ Head(buf) = "+" THEN Tail(buf) ELSE buf
        s2 == IF Len(s1) >= 2 /\ s1[1] = "0" /\ s1[2] \in {"x", "X"}
              THEN SubSeq(s1, 3, Len(s1)) ELSE s1
        p  == ParseDigits(s2, 0, 0)
        r1 == IF p[3] # <<>> /\ Head(p[3]) = "\n" THEN Tail(p[3]) ELSE p[3]
    IN  IF p[1] = 0 THEN [err |-> EINVAL, val |-> 0]
        ELSE IF r1 # <<>> THEN [err |-> EINVAL, val |-> 0]
        ELSE IF p[2] >= U16 THEN [err |-> ERANGE, val |-> 0]
        ELSE [err |-> 0, val |-> p[2]]

\* sysfs_emit(buf, "0x%04x\n", v): the text put in the buffer
FormatHex4(v) ==
    <<"0", "x", HexDigits[((v \div 4096) % 16) + 1],
      HexDigits[((v \div 256) % 16) + 1], HexDigits[((v \div 16) % 16) + 1],
      HexDigits[(v % 16) + 1], "\n">>

(* ------------------------------------------------------------------ state *)
\* "wdt2" is a second caller of the watchdog ops; it runs only where the
\* callers are not serialized (SpecRace)
Threads == {"bind", "wdt", "wdt2", "sysfs"}

VARIABLES
    hw,           \* contents of the FPGA registers, by address
    wdt_timeout,  \* the module parameter
    wdd_timeout,  \* data->wdd.timeout, the cached timeout
    registered,   \* watchdog_register_device succeeded and remove has not run
    th,           \* per context: position, locals and the record of its call
    ncalls        \* calls started so far

vars == <<hw, wdt_timeout, wdd_timeout, registered, th, ncalls>>

\* A context that has not called anything yet.
\*   pc    where the context stands ("idle" between calls)
\*   op    the function it called last, arg its argument
\*   err   the local the function keeps between transactions
\*   ret   what the call returned, out the text a show() emitted
\*   txns  the SMBus transactions the call has issued, in order
\*   pre   the status register, the cached timeout and whether an undisturbed
\*         successful stop() had just finished, when the call began
\*   intr  another context has taken a step since the call began
\* The record of a returned call stays until another context runs.
NoCall ==
    [pc |-> "idle", op |-> "none", arg |-> 0, err |-> 0, ret |-> 0,
     out |-> <<>>, txns |-> <<>>,
     pre |-> [status |-> 0, timeout |-> 0, afterStop |-> FALSE],
     intr |-> FALSE]

Init ==
    /\ hw \in {[r \in Regs |-> IF r = WD_STATUS_CONTROLL THEN s
                                ELSE IF r = WD_UPTIME THEN u ELSE 0] :
               s \in InitStatus, u \in InitUptime}
    /\ wdt_timeout \in Overrides
    /\ wdd_timeout = 0
    /\ registered = FALSE
    /\ th = [t \in Threads |-> NoCall]
    /\ ncalls = 0

(* ------------------------------------------------------------ bus helpers *)
\* results an SMBus write may have, and a read of register reg
WriteResults == {0} \cup BusErrors
ReadResults(reg) == {hw[reg]} \cup BusErrors

\* the registers after i2c_smbus_write_word_data(client, reg, value) = res
AfterWrite(reg, value, res) ==
    IF res = 0 THEN [hw EXCEPT ![reg] = ToU16(value)] ELSE hw

WriteTxn(reg, value, res) ==
    [kind |-> "write", reg |-> reg, val |-> ToU16(value), res |-> res]
ReadTxn(reg, res) ==
    [kind |-> "read", reg |-> reg, val |-> 0, res |-> res]

\* the record of a call that begins now
Begin(t, name, a) ==
    [pc |-> "idle", op |-> name, arg |-> a, err |-> 0, ret |-> 0,
     out |-> <<>>, txns |-> <<>>,
     pre |-> [status |-> hw[WD_STATUS_CONTROLL], timeout |-> wdd_timeout,
              afterStop |-> /\ th[t].op = "stop" /\ th[t].ret = 0
                            /\ ~th[t].intr],
     intr |-> FALSE]

\* context t moves to record rec. A context in the middle of a call notes
\* that somebody ran; the record of a call that has returned is kept only
\* until another context runs
StepKeeping(t, rec, keep) ==
    th' = [u \in Threads |->
             IF u = t THEN rec
             ELSE IF th[u].pc = "idle"
                  THEN (IF u \in keep THEN th[u] ELSE NoCall)
             ELSE [th[u] EXCEPT !.intr = TRUE]]

Step(t, rec) == StepKeeping(t, rec, {})

CanCall(t) == th[t].pc = "idle" /\ ncalls < MaxCalls

(* ------------------------------------------------------ kick_wdt and ping *)
\* kick_wdt leaving the kick line high in its third write
KickValueStuckHigh(phase) == IF phase = 1 THEN 0 ELSE 256

\* the word kick_wdt writes to WD_KICK in phase 1, 2, 3
KickValue(phase) == IF phase = 2 THEN 256 ELSE 0

\* kick_wdt without its "if (err) return err" after the first two writes
KickNextPcNoAbort(phase, err) ==
    IF phase = 1 THEN "kick2" ELSE IF phase = 2 THEN "kick3" ELSE "idle"

\* where kick_wdt stands after the write of a phase returned err
KickNextPc(phase, err) ==
    IF err # 0 THEN "idle"
    ELSE IF phase = 1 THEN "kick2"
    ELSE IF phase = 2 THEN "kick3"
    ELSE "idle"

\* one phase of kick_wdt, by the context whose call record is rec
kick_wdt(t, rec, phase, res) ==
    /\ hw' = AfterWrite(WD_KICK, KickValue(phase), res)
    /\ Step(t, [rec EXCEPT
                  !.txns = Append(@, WriteTxn(WD_KICK, KickValue(phase), res)),
                  !.err = res,
                  !.pc = KickNextPc(phase, res),
                  !.ret = res])
    /\ UNCHANGED <<wdt_timeout, wdd_timeout, registered>>

mcom_fpga_ping(t) ==
    /\ t = "wdt" /\ registered /\ CanCall(t)
    /\ \E res \in WriteResults : kick_wdt(t, Begin(t, "ping", 0), 1, res)
    /\ ncalls' = ncalls + 1

Kick2(t) ==
    /\ th[t].pc = "kick2"
    /\ \E res \in WriteResults : kick_wdt(t, th[t], 2, res)
    /\ UNCHANGED ncalls

Kick3(t) ==
    /\ th[t].pc = "kick3"
    /\ \E res \in WriteResults : kick_wdt(t, th[t], 3, res)
    /\ UNCHANGED ncalls

(* ------------------------------------------- set_mode, start and stop *)
\* set_mode masking with WD_DIS_MASK alone: the old mode bits stay set
SetModeValueKeepLow(old, mode) == BitOr(BitAnd(old, WD_DIS_MASK), mode)

\* set_mode adding the target to the old mode field instead of replacing it
SetModeValueAdd(old, mode) == BitAnd(old, WD_DIS_MASK) + mode

\* set_mode masking the old word with WD_MODE_MASK only
SetModeValueKeepHigh(old, mode) == BitOr(BitAnd(old, WD_MODE_MASK), mode)

\* the word mcom_fpga_set_mode writes back, from the word it read
SetModeValue(old, mode) ==
    BitOr(BitAnd(BitAnd(old, WD_DIS_MASK), WD_MODE_MASK), mode)

\* set_mode without its "if (err < 0) return err" after the read
SetModeReadFailedNever(err) == FALSE

\* whether mcom_fpga_set_mode returns after its read returned err
SetModeReadFailed(err) == err < 0

\* the read of mcom_fpga_set_mode; a failed read returns its error
\* (keep names the contexts whose returned calls stay on record)
SetModeReadKeeping(t, name, mode, keep) ==
    /\ \E res \in ReadResults(WD_STATUS_CONTROLL) :
         StepKeeping(t, [Begin(t, name, mode) EXCEPT
                           !.txns = <<ReadTxn(WD_STATUS_CONTROLL, res)>>,
                           !.err = res,
                           !.pc = IF SetModeReadFailed(res) THEN "idle"
                                  ELSE "set_mode_write",
                           !.ret = IF SetModeReadFailed(res) THEN res ELSE 0],
                     keep)
    /\ ncalls' = ncalls + 1
    /\ UNCHANGED <<hw, wdt_timeout, wdd_timeout, registered>>

SetModeRead(t, name, mode) == SetModeReadKeeping(t, name, mode, {})

\* the write of mcom_fpga_set_mode; its result is what set_mode returns
SetModeWriteKeeping(t, keep) ==
    /\ th[t].pc = "set_mode_write"
    /\ \E res \in WriteResults :
         LET v == SetModeValue(th[t].err, th[t].arg)
         IN  /\ hw' = AfterWrite(WD_STATUS_CONTROLL, v, res)
             /\ StepKeeping(t, [th[t] EXCEPT
                           !.txns = Append(@, WriteTxn(WD_STATUS_CONTROLL, v, res)),
                           !.err = res,
                           !.pc = "idle",
                           !.ret = res],
                         keep)
    /\ UNCHANGED <<wdt_timeout, wdd_timeout, registered, ncalls>>

SetModeWrite(t) ==
    /\ t = "wdt"
    /\ SetModeWriteKeeping(t, {})

\* mcom_fpga_set_mode called with a target of its caller's choosing
mcom_fpga_set_mode(t) ==
    /\ t = "wdt" /\ registered /\ CanCall(t)
    /\ \E mode \in ModeArgs : SetModeRead(t, "set_mode", mode)

mcom_fpga_start(t) ==
    /\ t = "wdt" /\ registered /\ CanCall(t)
    /\ SetModeRead(t, "start", WD_START_MODE)

mcom_fpga_stop(t) ==
    /\ t = "wdt" /\ registered /\ CanCall(t)
    /\ SetModeRead(t, "stop", WD_DOWN_MODE)

(* ------------------------------------------------------------ set_timeout *)
\* set_timeout caching the timeout before it looks at the write's result
SetTimeoutCacheAlways(ret, timeout, old) == timeout

\* wdd->timeout after the uptime write returned ret
SetTimeoutCache(ret, timeout, old) == IF ret = 0 THEN timeout ELSE old

\* the body of mcom_fpga_set_timeout(wdd, timeout) whose write returns res
SetTimeoutBody(timeout, res) ==
    /\ hw' = AfterWrite(WD_UPTIME, timeout, res)
    /\ wdd_timeout' = SetTimeoutCache(res, timeout, wdd_timeout)

mcom_fpga_set_timeout(t) ==
    /\ t = "wdt" /\ registered /\ CanCall(t)
    /\ \E timeout \in TimeoutArgs, res \in WriteResults :
         /\ SetTimeoutBody(timeout, res)
         /\ Step(t, [Begin(t, "set_timeout", timeout) EXCEPT
                       !.txns = <<WriteTxn(WD_UPTIME, timeout, res)>>,
                       !.ret = res])
    /\ ncalls' = ncalls + 1
    /\ UNCHANGED <<wdt_timeout, registered>>

(* ------------------------------------------------------- sysfs attributes *)
\* mcom_fpga_attrs: the attribute, its register, and whether DEVICE_ATTR_xx
\* gives it a show() and a store()
mcom_fpga_attrs ==
    { [name |-> "status_controll",  reg |-> WD_STATUS_CONTROLL,  mode |-> "RW"],
      [name |-> "disable_ubs",      reg |-> WD_DISABLE_UBS,      mode |-> "RW"],
      [name |-> "uptime",           reg |-> WD_UPTIME,           mode |-> "RW"],
      [name |-> "normaltime",       reg |-> WD_NORMALTIME,       mode |-> "RW"],
      [name |-> "downtime",         reg |-> WD_DOWNTIME,         mode |-> "RW"],
      [name |-> "ubstime",          reg |-> WD_UBSTIME,          mode |-> "RW"],
      [name |-> "perepherie_reset", reg |-> WD_PEREPHERIE_RESET, mode |-> "WO"],
      [name |-> "windowtime",       reg |-> WD_WINDOWTIME,       mode |-> "RW"],
      [name |-> "temperature",      reg |-> WD_TEMP,             mode |-> "RO"],
      [name |-> "mvb_status",       reg |-> WD_MVB_STATUS,       mode |-> "RO"],
      [name |-> "mvb_ctrl",         reg |-> WD_MVB_CTRL,         mode |-> "RW"] }

HasShow(a) == a.mode \in {"RW", "RO"}

\* every attribute declared DEVICE_ATTR_RW
HasStoreAll(a) == TRUE

HasStore(a) == a.mode \in {"RW", "WO"}

\* xx_show(): one word read, emitted as text; returns the length emitted
AttrShow(t, a) ==
    /\ t = "sysfs" /\ CanCall(t) /\ HasShow(a)
    /\ \E res \in ReadResults(a.reg) :
         Step(t, [Begin(t, "show", a.reg) EXCEPT
                    !.txns = <<ReadTxn(a.reg, res)>>,
                    !.err = res,
                    !.out = IF res < 0 THEN <<>> ELSE FormatHex4(res),
                    !.ret = IF res < 0 THEN res ELSE Len(FormatHex4(res))])
    /\ ncalls' = ncalls + 1
    /\ UNCHANGED <<hw, wdt_timeout, wdd_timeout, registered>>

\* mcom_fpga_store_word(buf, count, reg) when kstrtou16 returned err
StoreReject(t, reg, err) ==
    /\ Step(t, [Begin(t, "store", reg) EXCEPT !.err = err, !.ret = err])
    /\ UNCHANGED hw

\* mcom_fpga_store_word without its "if (err) return err" after the write
StoreWordRetCount(err, count) == count

\* what mcom_fpga_store_word returns after its write returned err
StoreWordRet(err, count) == IF err # 0 THEN err ELSE count

\* mcom_fpga_store_word(buf, count, reg) when kstrtou16 gave result
StoreWrite(t, reg, result, count) ==
    \E res \in WriteResults :
        /\ hw' = AfterWrite(reg, result, res)
        /\ Step(t, [Begin(t, "store", reg) EXCEPT
                      !.txns = <<WriteTxn(reg, result, res)>>,
                      !.err = res,
                      !.ret = StoreWordRet(res, count)])

\* what kstrtou16 makes of each text a user may write
Parsed == [buf \in StoreInputs |-> kstrtou16(buf)]

mcom_fpga_store_word(t, reg, buf) ==
    LET p == Parsed[buf]
    IN  IF p.err # 0 THEN StoreReject(t, reg, p.err)
        ELSE StoreWrite(t, reg, p.val, Len(buf))

\* xx_store() handed the text buf
AttrStoreText(t, a, buf) ==
    /\ t = "sysfs" /\ CanCall(t) /\ HasStore(a)
    /\ mcom_fpga_store_word(t, a.reg, buf)
    /\ ncalls' = ncalls + 1
    /\ UNCHANGED <<wdt_timeout, wdd_timeout, registered>>

AttrStore(t, a) == \E buf \in StoreInputs : AttrStoreText(t, a, buf)

\* a read of one of the attributes
Show(t) ==
    /\ t = "sysfs"
    /\ \E a \in mcom_fpga_attrs : AttrShow(t, a)

\* a write to one of the attributes
Store(t) ==
    /\ t = "sysfs"
    /\ \E a \in mcom_fpga_attrs : AttrStore(t, a)

(* ------------------------------------------------------- probe and remove *)
\* watchdog_init_timeout(&data->wdd, wdt_timeout, dev) on the zeroed wdd:
\* the timeout it leaves in wdd->timeout
watchdog_init_timeout(parm) == IF parm # 0 THEN parm ELSE 0

\* what watchdog_register_device may return
RegisterResults == {0, ENOMEM}

\* probe without the fallback to the uptime register
ProbeNeverReads(timeout) == FALSE

\* probe reads the uptime register when no timeout was given
ProbeNeedsRead(timeout) == timeout = 0

\* probe logging the error and carrying on
ProbeAbortNever(ret) == FALSE

\* probe gives up when a step returned an error
ProbeAbort(ret) == ret # 0

\* a probe that fails before it touches the bus
ProbeRefuse(t, func, addr, alloc) ==
    /\ ~func \/ addr # FPGA_ADDR \/ ~alloc
    /\ Step(t, [Begin(t, "probe", wdt_timeout) EXCEPT
                  !.ret = IF ~func \/ addr # FPGA_ADDR
                          THEN ENODEV ELSE ENOMEM])
    /\ UNCHANGED wdd_timeout

\* a probe that gets as far as resolving the timeout
ProbeResolve(t, func, addr, alloc) ==
    /\ func /\ addr = FPGA_ADDR /\ alloc
    /\ LET t0 == watchdog_init_timeout(wdt_timeout)
           rec == Begin(t, "probe", wdt_timeout)
       IN  IF ProbeNeedsRead(t0)
           THEN \E val \in ReadResults(WD_UPTIME) :
                  /\ wdd_timeout' = IF val < 0 THEN t0 ELSE val
                  /\ Step(t, [rec EXCEPT
                                !.txns = <<ReadTxn(WD_UPTIME, val)>>,
                                !.err = val,
                                !.pc = IF val < 0 THEN "idle"
                                       ELSE "probe_set_timeout",
                                !.ret = IF val < 0 THEN val ELSE 0])
           ELSE /\ wdd_timeout' = t0
                /\ Step(t, [rec EXCEPT !.pc = "probe_set_timeout"])

mcom_fpga_probe(t) ==
    /\ t = "bind" /\ ~registered /\ CanCall(t)
    /\ \E func \in BOOLEAN, addr \in ClientAddrs, alloc \in BOOLEAN :
         ProbeRefuse(t, func, addr, alloc) \/ ProbeResolve(t, func, addr, alloc)
    /\ ncalls' = ncalls + 1
    /\ UNCHANGED <<hw, wdt_timeout, registered>>

\* ret = mcom_fpga_set_timeout(&data->wdd, data->wdd.timeout)
ProbeSetTimeout(t) ==
    /\ th[t].pc = "probe_set_timeout"
    /\ \E res \in WriteResults :
         /\ SetTimeoutBody(wdd_timeout, res)
         /\ Step(t, [th[t] EXCEPT
                       !.txns = Append(@, WriteTxn(WD_UPTIME, wdd_timeout, res)),
                       !.err = res,
                       !.pc = IF ProbeAbort(res) THEN "idle" ELSE "probe_port",
                       !.ret = res])
    /\ UNCHANGED <<wdt_timeout, registered, ncalls>>

\* ret = i2c_smbus_write_byte_data(mcom_fpga_client, 0x06, 0x00)
ProbePort(t) ==
    /\ th[t].pc = "probe_port"
    /\ \E res \in WriteResults :
         /\ hw' = AfterWrite(PORT0_CONFIG, 0, res)
         /\ Step(t, [th[t] EXCEPT
                       !.txns = Append(@, WriteTxn(PORT0_CONFIG, 0, res)),
                       !.err = res,
                       !.pc = IF ProbeAbort(res) THEN "idle" ELSE "probe_register",
                       !.ret = res])
    /\ UNCHANGED <<wdt_timeout, wdd_timeout, registered, ncalls>>

\* ret = watchdog_register_device(&data->wdd); return ret
ProbeRegister(t) ==
    /\ th[t].pc = "probe_register"
    /\ \E res \in RegisterResults :
         /\ registered' = (res = 0)
         /\ Step(t, [th[t] EXCEPT !.err = res, !.pc = "idle", !.ret = res])
    /\ UNCHANGED <<hw, wdt_timeout, wdd_timeout, ncalls>>

\* watchdog_unregister_device(&data->wdd); it waits for a running op
mcom_fpga_remove(t) ==
    /\ t = "bind" /\ registered /\ CanCall(t)
    /\ th["wdt"].pc = "idle"
    /\ registered' = FALSE
    /\ Step(t, Begin(t, "remove", 0))
    /\ ncalls' = ncalls + 1
    /\ UNCHANGED <<hw, wdt_timeout, wdd_timeout>>

(* ---------------------------------------------------------- specification *)
Next ==
    \E t \in Threads :
        \/ mcom_fpga_probe(t)
        \/ ProbeSetTimeout(t)
        \/ ProbePort(t)
        \/ ProbeRegister(t)
        \/ mcom_fpga_remove(t)
        \/ mcom_fpga_start(t)
        \/ mcom_fpga_stop(t)
        \/ mcom_fpga_set_mode(t)
        \/ SetModeWrite(t)
        \/ mcom_fpga_ping(t)
        \/ Kick2(t)
        \/ Kick3(t)
        \/ mcom_fpga_set_timeout(t)
        \/ Show(t)
        \/ Store(t)

Spec == Init /\ [][Next]_vars

(* --------------------------------------- set_mode from unserialized callers *)
\* Two contexts call the mode ops of a registered watchdog with nothing
\* serializing them; the record of a returned call stays.
Racers == {"wdt", "wdt2"}

\* targets the racing set_mode calls are given: the three canonical modes
\* and one word that carries bit 3
RaceModeArgs == {WD_START_MODE, WD_NORMAL_MODE, WD_DOWN_MODE, 8}

RaceSetMode(t) ==
    /\ t \in Racers /\ registered /\ CanCall(t)
    /\ \E mode \in RaceModeArgs :
         SetModeReadKeeping(t, "set_mode", mode, Racers)

RaceSetModeWrite(t) ==
    /\ t \in Racers
    /\ SetModeWriteKeeping(t, Racers)

NextRace ==
    \E t \in Threads :
        \/ mcom_fpga_probe(t)
        \/ ProbeSetTimeout(t)
        \/ ProbePort(t)
        \/ ProbeRegister(t)
        \/ RaceSetMode(t)
        \/ RaceSetModeWrite(t)

SpecRace == Init /\ [][NextRace]_vars

(* ------------------------------------------------------------- properties *)
\* context t has a call on record that has returned
Returned(t, name) == th[t].op = name /\ th[t].pc = "idle"

\* every transaction of the sequence succeeded
AllOk(txns) == \A i \in 1..Len(txns) : txns[i].res >= 0

CanonicalModes == {WD_START_MODE, WD_NORMAL_MODE, WD_DOWN_MODE}
SetModeOps == {"start", "stop", "set_mode"}

\* C1: a ping writes only WD_KICK, with 0x0000, 0x0100, 0x0000 in that
\* order; no write follows a failed one; it returns the result of its last
\* write, and returns 0 only after all three writes.
C1_KickSequence ==
    \A t \in Threads :
        th[t].op = "ping" =>
            LET x == th[t].txns
            IN  /\ Len(x) \in 1..3
                /\ \A i \in 1..Len(x) :
                     /\ x[i].kind = "write" /\ x[i].reg = WD_KICK
                     /\ x[i].val = <<0, 256, 0>>[i]
                /\ \A i \in 1..(Len(x) - 1) : x[i].res = 0
                /\ th[t].pc = "kick2" => Len(x) = 1 /\ x[1].res = 0
                /\ th[t].pc = "kick3" => Len(x) = 2 /\ x[2].res = 0
                /\ th[t].pc = "idle" =>
                     /\ th[t].ret = x[Len(x)].res
                     /\ (x[Len(x)].res = 0 => Len(x) = 3)
                     /\ (x[Len(x)].res # 0 => th[t].ret \in BusErrors)

\* a ping whose second write failed and that has returned
C1_Witness ==
    /\ Returned("wdt", "ping")
    /\ Len(th["wdt"].txns) = 2
    /\ th["wdt"].ret \in BusErrors

\* C2 as claimed: after an undisturbed successful set_mode(m), m canonical,
\* the low three bits of the status register equal m and its low seven bits
\* are what they were before the call.
C2_DisableBitsUnchanged ==
    \A t \in Threads :
        ( /\ th[t].op \in SetModeOps /\ th[t].pc = "idle"
          /\ th[t].arg \in CanonicalModes
          /\ th[t].ret = 0 /\ ~th[t].intr )
        => /\ hw[WD_STATUS_CONTROLL] % 8 = th[t].arg
           /\ hw[WD_STATUS_CONTROLL] % 128 = th[t].pre.status % 128

\* C2 amended: after an undisturbed successful set_mode(m), m canonical, the
\* low three bits of the status register equal m, bits 3..6 are what they
\* were before the call, and bits 7..15 are clear.
C2_ModeSetBits3to6Kept ==
    \A t \in Threads :
        ( /\ th[t].op \in SetModeOps /\ th[t].pc = "idle"
          /\ th[t].arg \in CanonicalModes
          /\ th[t].ret = 0 /\ ~th[t].intr )
        => /\ hw[WD_STATUS_CONTROLL] % 8 = th[t].arg
           /\ (hw[WD_STATUS_CONTROLL] \div 8) % 16
                = (th[t].pre.status \div 8) % 16
           /\ hw[WD_STATUS_CONTROLL] < 128

\* a successful start() on a register whose old mode bits and bit 15 were set
C2_Witness ==
    /\ Returned("wdt", "start")
    /\ th["wdt"].ret = 0 /\ ~th["wdt"].intr
    /\ th["wdt"].pre.status % 8 # WD_START_MODE
    /\ th["wdt"].pre.status >= 128
    /\ (th["wdt"].pre.status \div 8) % 16 # 0

\* C3 as claimed: set_mode with a target outside {1, 2, 4} issues no bus
\* transaction and returns an error.
C3_RejectsNonCanonical ==
    \A t \in Threads :
        (th[t].op \in SetModeOps /\ th[t].arg \notin CanonicalModes)
        => /\ th[t].txns = <<>>
           /\ th[t].pc = "idle" /\ th[t].ret < 0

\* C4: set_timeout(s) issues one write of s to WD_UPTIME and returns its
\* result; the cached timeout is s if the write succeeded and is what it
\* was before the call if the write failed.
C4_TimeoutCachedOnSuccessOnly ==
    \A t \in Threads :
        Returned(t, "set_timeout") =>
            LET x == th[t].txns
            IN  /\ Len(x) = 1
                /\ x[1].kind = "write" /\ x[1].reg = WD_UPTIME
                /\ th[t].ret = x[1].res
                /\ (x[1].res = 0 => wdd_timeout = th[t].arg)
                /\ (x[1].res # 0 =>
                      /\ th[t].ret \in BusErrors
                      /\ wdd_timeout = th[t].pre.timeout)

\* a set_timeout whose write failed, asked for a value other than the cached
C4_Witness ==
    /\ Returned("wdt", "set_timeout")
    /\ th["wdt"].ret \in BusErrors
    /\ th["wdt"].arg # th["wdt"].pre.timeout
    /\ wdd_timeout = th["wdt"].pre.timeout

\* C5: a probe without a timeout override that passed the identity check
\* and the allocation, whose bus transactions all succeeded and whose
\* registration succeeded, returns 0; it read v from WD_UPTIME, wrote v to
\* WD_UPTIME exactly once, and the cached timeout is v.
C5_AttachAdoptsUptime ==
    \A t \in Threads :
        ( /\ Returned(t, "probe") /\ th[t].arg = 0
          /\ th[t].txns # <<>> /\ AllOk(th[t].txns)
          /\ th[t].err = 0 )
        => LET x == th[t].txns
               v == x[1].res
           IN  /\ th[t].ret = 0 /\ registered
               /\ x[1].kind = "read" /\ x[1].reg = WD_UPTIME
               /\ Cardinality({i \in 1..Len(x) :
                     x[i].kind = "write" /\ x[i].reg = WD_UPTIME}) = 1
               /\ \A i \in 1..Len(x) :
                     (x[i].kind = "write" /\ x[i].reg = WD_UPTIME)
                     => x[i].val = v
               /\ wdd_timeout = v

\* a successful probe without override on a device whose uptime is 120
C5_Witness ==
    /\ Returned("bind", "probe") /\ th["bind"].arg = 0
    /\ th["bind"].ret = 0 /\ registered
    /\ Len(th["bind"].txns) = 3 /\ AllOk(th["bind"].txns)
    /\ th["bind"].txns[1].res = 120
    /\ wdd_timeout = 120

\* an attribute access by the sysfs context that puts a transaction on the bus
ShowReachesBus(a) == AttrShow("sysfs", a) /\ th'["sysfs"].txns # <<>>
StoreReachesBus(a) ==
    \E buf \in StoreInputs :
        Parsed[buf].err = 0 /\ AttrStoreText("sysfs", a, buf)
                               /\ th'["sysfs"].txns # <<>>

\* C6: no context ever writes WD_TEMP or WD_MVB_STATUS or reads
\* WD_PEREPHERIE_RESET; whenever the sysfs context may start a call, no
\* store of temperature or mvb_status and no show of perepherie_reset can
\* reach the bus, and every other attribute of mcom_fpga_attrs can be both
\* read and written on the bus.
C6_AccessModes ==
    /\ \A t \in Threads : \A i \in 1..Len(th[t].txns) :
         LET x == th[t].txns[i]
         IN  /\ x.reg \in {WD_TEMP, WD_MVB_STATUS} => x.kind = "read"
             /\ x.reg = WD_PEREPHERIE_RESET => x.kind = "write"
    /\ CanCall("sysfs") =>
         \A a \in mcom_fpga_attrs :
            /\ a.reg \in {WD_TEMP, WD_MVB_STATUS} =>
                 (ENABLED ShowReachesBus(a)) /\ ~(ENABLED StoreReachesBus(a))
            /\ a.reg = WD_PEREPHERIE_RESET =>
                 ~(ENABLED ShowReachesBus(a)) /\ (ENABLED StoreReachesBus(a))
            /\ a.reg \notin {WD_TEMP, WD_MVB_STATUS, WD_PEREPHERIE_RESET} =>
                 (ENABLED ShowReachesBus(a)) /\ (ENABLED StoreReachesBus(a))

\* the peripheral-reset strobe was written through its attribute
C6_Witness ==
    /\ Returned("sysfs", "store")
    /\ th["sysfs"].arg = WD_PEREPHERIE_RESET
    /\ Len(th["sysfs"].txns) = 1
    /\ th["sysfs"].txns[1].kind = "write" /\ th["sysfs"].txns[1].res = 0
    /\ hw[WD_PEREPHERIE_RESET] = 112

\* C7: an undisturbed successful stop() issues one read and then one write
\* of the status register; when it follows an undisturbed successful stop()
\* with nothing in between, the status register afterwards holds what it
\* held after the first.
C7_StopIdempotent ==
    \A t \in Threads :
        (Returned(t, "stop") /\ th[t].ret = 0 /\ ~th[t].intr)
        => LET x == th[t].txns
           IN  /\ Len(x) = 2
               /\ x[1].kind = "read" /\ x[1].reg = WD_STATUS_CONTROLL
               /\ x[2].kind = "write" /\ x[2].reg = WD_STATUS_CONTROLL
               /\ th[t].pre.afterStop =>
                    /\ x[1].res = th[t].pre.status
                    /\ hw[WD_STATUS_CONTROLL] = th[t].pre.status

\* the second of two successive successful stop() calls has returned
C7_Witness ==
    /\ Returned("wdt", "stop")
    /\ th["wdt"].ret = 0 /\ ~th["wdt"].intr
    /\ th["wdt"].pre.afterStop
    /\ hw[WD_STATUS_CONTROLL] # 0

\* a watchdog op can be started
OpsCallable ==
    ENABLED ( \/ mcom_fpga_start("wdt") \/ mcom_fpga_stop("wdt")
              \/ mcom_fpga_set_mode("wdt") \/ mcom_fpga_ping("wdt")
              \/ mcom_fpga_set_timeout("wdt") )

\* C8: a probe one of whose bus transactions failed has returned the error
\* of that transaction, issued nothing after it, and left the watchdog
\* unregistered; while the watchdog is unregistered no op runs or can start.
C8_FailedAttachNotPublished ==
    /\ \A t \in Threads :
         (th[t].op = "probe" /\ ~AllOk(th[t].txns))
         => LET x == th[t].txns
            IN  /\ \A i \in 1..(Len(x) - 1) : x[i].res >= 0
                /\ th[t].pc = "idle"
                /\ th[t].ret = x[Len(x)].res
                /\ ~registered
    /\ ~registered => th["wdt"].pc = "idle" /\ ~OpsCallable

\* a probe whose port-configuration write failed
C8_Witness ==
    /\ Returned("bind", "probe")
    /\ Len(th["bind"].txns) >= 2
    /\ th["bind"].txns[Len(th["bind"].txns)].reg = PORT0_CONFIG
    /\ th["bind"].txns[Len(th["bind"].txns)].res \in BusErrors
    /\ th["bind"].ret \in BusErrors
    /\ ~registered

\* C9 as claimed: once the watchdog is registered (probe's set_timeout has
\* succeeded) the cached timeout equals the uptime register. The cached
\* value is compared as the 16-bit word the bus carries, so that a timeout
\* above 0xFFFF does not count against the claim here.
C9_CacheEqualsUptime ==
    registered => ToU16(wdd_timeout) = hw[WD_UPTIME]

\* C10 as claimed: between the read and the write of set_mode nothing else
\* writes the status register: the word set_mode read is the word the
\* register holds when set_mode writes.
C10_NoLostUpdate ==
    \A t \in Threads :
        th[t].pc = "set_mode_write" => th[t].err = hw[WD_STATUS_CONTROLL]

(* ------------------------------------------------------------------- C11 *)
\* both racers' latest set_mode calls returned success
RaceDone ==
    \A r \in Racers : Returned(r, "set_mode") /\ th[r].ret = 0

\* the two calls overlapped: each read the status word before the other
\* wrote it, so both read the word that was there before either call
RaceOverlapped ==
    /\ RaceDone
    /\ \A r \in Racers : th[r].intr /\ th[r].txns[1].res = th[r].pre.status
    /\ th["wdt"].pre.status = th["wdt2"].pre.status

\* what the register holds after the two calls run one after the other,
\* in either order, from the status word old
SerialOutcomes(old, a, b) ==
    { SetModeValue(SetModeValue(old, a), b),
      SetModeValue(SetModeValue(old, b), a) }

RaceCanonical == \A r \in Racers : th[r].arg \in CanonicalModes

RaceAnyTargetAsSerial ==
    RaceOverlapped =>
        hw[WD_STATUS_CONTROLL] \in
            SerialOutcomes(th["wdt"].pre.status, th["wdt"].arg, th["wdt2"].arg)

(* ------------------------------------------------------------------- C12 *)
\* C12: after a set_timeout that returned success, the cached timeout
\* equals the 16-bit word the call wrote to WD_UPTIME.
C12_CacheIsWrittenWord ==
    \A t \in Threads :
        (Returned(t, "set_timeout") /\ th[t].ret = 0) =>
            wdd_timeout = th[t].txns[1].val

(* ------------------------------------------------------------------- C13 *)
\* the last transaction of the call on record for t
LastTxn(t) == th[t].txns[Len(th[t].txns)]

\* C13: a write-type operation returns success only if its bus write
\* succeeded, and returns the write's error otherwise: set_mode (through
\* start, stop) returns 0 only after a successful write of
\* WD_STATUS_CONTROLL and returns the error of a failed one; set_timeout
\* returns the result of its WD_UPTIME write; mcom_fpga_store_word returns
\* count only after a successful write and the error of a failed one.
C13_NoSuccessOnRejectedWrite ==
    \A t \in Threads :
        /\ (th[t].op \in SetModeOps /\ th[t].pc = "idle") =>
              /\ th[t].ret = 0 =>
                    /\ Len(th[t].txns) = 2
                    /\ LastTxn(t).kind = "write"
                    /\ LastTxn(t).res = 0
              /\ Len(th[t].txns) = 2 => th[t].ret = LastTxn(t).res
        /\ Returned(t, "set_timeout") =>
              /\ Len(th[t].txns) = 1
              /\ LastTxn(t).kind = "write"
              /\ th[t].ret = LastTxn(t).res
        /\ Returned(t, "store") =>
              /\ th[t].ret >= 0 =>
                    /\ Len(th[t].txns) = 1
                    /\ LastTxn(t).kind = "write"
                    /\ LastTxn(t).res = 0
              /\ (Len(th[t].txns) = 1 /\ LastTxn(t).res # 0) =>
                    th[t].ret = LastTxn(t).res

\* a store whose text parsed and whose bus write was rejected
C13_Witness ==
    /\ Returned("sysfs", "store")
    /\ Len(th["sysfs"].txns) = 1
    /\ th["sysfs"].txns[1].res < 0
    /\ th["sysfs"].ret = th["sysfs"].txns[1].res

(* ------------------------------------------------------------------- C14 *)
\* the number of transactions of kind k in the sequence
CountKind(txns, k) == Cardinality({i \in 1..Len(txns) : txns[i].kind = k})

\* C14: no operation retries a bus transaction. One set_timeout issues
\* exactly one write; one set_mode (start, stop) at most one read and at most
\* one write; one ping at most three writes and no read; one show or store
\* at most one transaction; and in no call does a transaction follow a
\* failed one.
C14_NoRetry ==
    \A t \in Threads :
        LET x == th[t].txns
        IN  /\ Returned(t, "set_timeout") =>
                  CountKind(x, "write") = 1 /\ Len(x) = 1
            /\ th[t].op \in SetModeOps =>
                  CountKind(x, "read") <= 1 /\ CountKind(x, "write") <= 1
            /\ th[t].op = "ping" =>
                  CountKind(x, "write") <= 3 /\ CountKind(x, "read") = 0
            /\ th[t].op \in {"show", "store"} => Len(x) <= 1
            /\ th[t].op \in SetModeOps \cup {"ping", "set_timeout",
                                             "show", "store"} =>
                  \A i \in 1..Len(x) : x[i].res < 0 => i = Len(x)

\* a ping that stopped at its rejected second write
C14_Witness ==
    /\ Returned("wdt", "ping")
    /\ Len(th["wdt"].txns) = 2
    /\ th["wdt"].txns[2].res < 0

(* ------------------------------------------------------------------- C15 *)
\* C15: once the device is attached (and so after every successful
\* set_timeout, which runs only on an attached device) the cached timeout
\* is not 0.
C15_CachedTimeoutNonZero == registered => wdd_timeout # 0

(* ------------------------------------------------------------------- C16 *)
\* C16: a set_mode (start, stop) whose read of WD_STATUS_CONTROLL failed
\* returns the read's error, has issued no other transaction, and leaves the
\* status register and the cached timeout as they were when it was called.
C16_FailedReadIsInert ==
    \A t \in Threads :
        (/\ th[t].op \in SetModeOps
         /\ th[t].pc = "idle"
         /\ th[t].txns[1].res < 0) =>
            /\ th[t].ret = th[t].txns[1].res
            /\ Len(th[t].txns) = 1
            /\ hw[WD_STATUS_CONTROLL] = th[t].pre.status
            /\ wdd_timeout = th[t].pre.timeout

\* a start whose read failed, on a set status register and a set timeout
C16_Witness ==
    /\ Returned("wdt", "start")
    /\ th["wdt"].txns[1].res < 0
    /\ th["wdt"].pre.status = 32891
    /\ th["wdt"].pre.timeout = 60

(* ------------------------------------------------------------------- C17 *)
\* the probe on record for the bind context has published the device
Published == Returned("bind", "probe") /\ th["bind"].ret = 0

\* C17: a ping, start or stop runs only on a published device, and when the
\* probe has published the device it has written WD_UPTIME successfully and
\* the cached timeout equals the word of that write.
C17_AttachOrdering ==
    /\ \A t \in Threads :
          (th[t].op \in {"ping", "start", "stop"} /\ th[t].pc # "idle") =>
              registered
    /\ Published =>
          /\ registered
          /\ \E i \in 1..Len(th["bind"].txns) :
                /\ th["bind"].txns[i].kind = "write"
                /\ th["bind"].txns[i].reg = WD_UPTIME
                /\ th["bind"].txns[i].res = 0
                /\ wdd_timeout = th["bind"].txns[i].val

(* ------------------------------------------------------------------- C18 *)
\* the target start and stop pass to set_mode
TargetOf(op) == IF op = "start" THEN WD_START_MODE ELSE WD_DOWN_MODE

\* bits 3..6 of old with the target in bits 0..2, by arithmetic
KeepBits3to6(old, target) == ((old \div 8) % 16) * 8 + target

\* status words on which the written word is also computed directly
SampleWords == {0, 7, 8, 120, 127, 128, 255, 32768, 32891, 65535}

\* C18: the word a start or stop writes to WD_STATUS_CONTROLL is
\* (old & 0x7F & 0xF8) | target for the word old it read: bits 3..6 of old
\* carried over, bits 0..2 and 7..15 of old cleared, the target bit set.
C18_WrittenWord ==
    /\ \A t \in Threads :
          (th[t].op \in {"start", "stop"} /\ Len(th[t].txns) = 2) =>
              LET old == th[t].txns[1].res
                  w   == th[t].txns[2]
              IN  /\ w.kind = "write" /\ w.reg = WD_STATUS_CONTROLL
                  /\ w.val = KeepBits3to6(old, TargetOf(th[t].op))
                  /\ w.val % 8 = TargetOf(th[t].op)
                  /\ w.val < 128
    /\ \A old \in SampleWords, m \in {WD_START_MODE, WD_DOWN_MODE} :
          SetModeValue(old, m) = KeepBits3to6(old, m)

\* a stop that read 0x807B and wrote 0x007C
C18_Witness ==
    /\ th["wdt"].op = "stop"
    /\ Len(th["wdt"].txns) = 2
    /\ th["wdt"].txns[1].res = 32891
    /\ th["wdt"].txns[2].val = 124

(* ------------------------------------------------------------------- C19 *)
\* C19: whatever runs between the writes of a ping, WD_KICK is written only
\* by ping and only with 0x0000 or 0x0100; no attribute is bound to WD_KICK;
\* between the writes of a ping the register holds the word of the ping's
\* last write; and after a ping that returned 0 the register holds 0x0000.
C19_KickRegisterOwned ==
    /\ \A a \in mcom_fpga_attrs : a.reg # WD_KICK
    /\ hw[WD_KICK] \in {0, 256}
    /\ \A t \in Threads :
          /\ \A i \in 1..Len(th[t].txns) :
                (th[t].txns[i].kind = "write" /\ th[t].txns[i].reg = WD_KICK) =>
                    th[t].op = "ping" /\ th[t].txns[i].val \in {0, 256}
          /\ (th[t].op = "ping" /\ th[t].pc # "idle") =>
                hw[WD_KICK] = LastTxn(t).val
          /\ (Returned(t, "ping") /\ th[t].ret = 0) =>
                Len(th[t].txns) = 3 /\ hw[WD_KICK] = 0

\* a ping that returned 0 although another context ran between its writes
C19_Witness ==
    /\ Returned("wdt", "ping")
    /\ th["wdt"].ret = 0
    /\ th["wdt"].intr
    /\ Len(th["wdt"].txns) = 3

====
